---- MODULE Spec2Model ----
(***************************************************************************)
(* Model of video/h265.py (batch re-encode + remux orchestrator) and of    *)
(* download/ia-download.py (thread-pool downloader).                       *)
(*                                                                         *)
(* File names are sequences of tokens ("x", ".", "mp4", "temp_", ...), so  *)
(* that str.lower, str.endswith, os.path.splitext and the "temp_" prefix   *)
(* are computed rather than assumed.  The output folder is a partial       *)
(* function from file name to content; media content is a sequence of      *)
(* tracks that remember where they came from.                              *)
(***************************************************************************)
EXTENDS Integers, Sequences, FiniteSets, TLC

\* ------------------------------------------------------------------ bounds
MaxFiles  == 3      \* largest number of entries in the input folder
MaxTracks == 1      \* largest number of audio (and of subtitle) tracks per input
MaxRuns   == 2      \* number of successive invocations of the program
MaxLinks  == 3      \* largest number of matching links on the page
MaxBlocks == 1      \* largest number of blocks a download writes

VARIABLES
    \* ---- h265.py
    resolution,     \* sys.argv[1]
    inDir,          \* names present in input_folder (never modified)
    nAudio, nSubs,  \* track layout of the input files
    fs,             \* output_folder: file name -> content
    log,            \* output_folder/mkvmerge-warnings-errors.log, a sequence of entries
    pc,             \* position of the program
    target_height,  \* local of encode_videos
    listing,        \* result of os.listdir(input_folder)
    idx,            \* number of listing entries the for loop has taken
    jobs,           \* per listing entry: status and the external tools invoked for it
    tracks_info,    \* local of merge_tracks
    command,        \* local of merge_tracks: the mkvmerge command line
    returncode,     \* result.returncode of the last mkvmerge run
    printed,        \* last line printed
    run,            \* ordinal of the current invocation
    prevExit,       \* how the previous invocation ended
    fsStart,        \* fs at the start of the current invocation
    logStart,       \* Len(log) at the start of the current invocation
    \* ---- ia-download.py
    file_links,     \* hrefs found on the page
    submitted,      \* number of links the main thread has submitted
    task,           \* per submitted link: state of its download_file call
    disk,           \* download_dir: file name -> sequence of the tasks that wrote a block
    mainpc          \* position of the main thread

videoVars == <<resolution, inDir, nAudio, nSubs, fs, log, pc, target_height, listing,
               idx, jobs, tracks_info, command, returncode, printed, run, prevExit,
               fsStart, logStart>>
iaVars    == <<file_links, submitted, task, disk, mainpc>>
vars      == <<resolution, inDir, nAudio, nSubs, fs, log, pc, target_height, listing,
               idx, jobs, tracks_info, command, returncode, printed, run, prevExit,
               fsStart, logStart, file_links, submitted, task, disk, mainpc>>

\* =================================================================== h265.py
\* ---------------------------------------------------------------- strings
\* str.lower() on the tokens that occur
Lower(tok) ==
    CASE tok = "MKV"   -> "mkv"
      [] tok = "MP4"   -> "mp4"
      [] tok = "1080P" -> "1080p"
      [] tok = "720P"  -> "720p"
      [] OTHER         -> tok

\* the tuple of suffixes of line 158, each ".<ext>"
MediaExtensions == {"mp4", "mkv", "avi", "mov", "flv", "wmv"}

\* filename.lower().endswith(('.mp4', ...))
IsMediaFile(filename) ==
    /\ Len(filename) >= 2
    /\ Lower(filename[Len(filename) - 1]) = "."
    /\ Lower(filename[Len(filename)]) \in MediaExtensions

\* index of the last "." token, 0 when there is none
LastDot(filename) ==
    LET dots == {i \in 1..Len(filename) : filename[i] = "."}
    IN  IF dots = {} THEN 0 ELSE CHOOSE i \in dots : \A j \in dots : j <= i

\* os.path.splitext(filename)[0]: cut at the last dot unless only dots precede it
base_name(filename) ==
    LET d == LastDot(filename)
    IN  IF d > 0 /\ (\E i \in 1..(d - 1) : filename[i] # ".")
        THEN SubSeq(filename, 1, d - 1)
        ELSE filename

\* "temp_" + base_name + '.mkv'
TempName(filename)  == <<"temp_">> \o base_name(filename) \o <<".", "mkv">>
\* base_name + '.mkv'
FinalName(filename) == base_name(filename) \o <<".", "mkv">>

\* os.path.join(folder, name)
PathJoin(folder, name) == [dir |-> folder, name |-> name]
NoPath == [dir |-> "", name |-> <<>>]

\* ----------------------------------------------------------------- inputs
FileNames ==
    { <<"x", ".", "mp4">>,
      <<"x", ".", "MKV">>,
      <<"temp_", "x", ".", "mp4">>,
      <<"n", ".", "txt">> }

Resolutions == {"720p", "1080P", "4k"}

\* a track of a media container
Track(type, id, origin, of, height) ==
    [type |-> type, id |-> id, origin |-> origin, of |-> of, height |-> height]

\* an input file: one video track, then nAudio audio and nSubs subtitle tracks
InputTracks(filename, na, ns) ==
    [k \in 1..(1 + na + ns) |->
        IF k = 1 THEN Track("video", 0, "original", filename, 0)
        ELSE IF k <= 1 + na THEN Track("audio", k - 1, "original", filename, 0)
        ELSE Track("subtitles", k - 1, "original", filename, 0)]

Media(tracks) == [kind |-> "media", tracks |-> tracks]
Stale         == [kind |-> "stale", tracks |-> <<>>]
Partial       == [kind |-> "partial", tracks |-> <<>>]

\* names that may be lying in the output folder before the first run
LeftoverNames == { <<"x", ".", "mkv">>, <<"temp_", "x", ".", "mkv">> }

\* the content a path refers to
ReadFile(path, files) ==
    IF path.dir = "in" THEN Media(InputTracks(path.name, nAudio, nSubs))
    ELSE files[path.name]

WriteFile(files, name, content) == (name :> content) @@ files
RemoveFile(files, name) == [n \in (DOMAIN files) \ {name} |-> files[n]]

\* ------------------------------------------------------------ validation
None == 0

\* target_heights.get(resolution.lower())
target_heights_get_default(key) ==
    CASE key = "480p"  -> 480
      [] key = "720p"  -> 720
      [] key = "1080p" -> 1080
      [] key = "2160p" -> 2160
      [] OTHER         -> 720

target_heights_get(key) ==
    CASE key = "480p"  -> 480
      [] key = "720p"  -> 720
      [] key = "1080p" -> 1080
      [] key = "2160p" -> 2160
      [] OTHER         -> None

\* --------------------------------------------------------- get_tracks_info
IdsOfType(tracks, type) ==
    LET Is(t) == t.type = type
        sel   == SelectSeq(tracks, Is)
    IN  [k \in 1..Len(sel) |-> sel[k].id]

get_tracks_info(content) ==
    [video     |-> IdsOfType(content.tracks, "video"),
     audio     |-> IdsOfType(content.tracks, "audio"),
     subtitles |-> IdsOfType(content.tracks, "subtitles")]

NoTracksInfo == [video |-> <<>>, audio |-> <<>>, subtitles |-> <<>>]

\* ------------------------------------------------------------ merge_tracks
Flag(opt)        == [opt |-> opt, path |-> NoPath, ids |-> <<>>]
OptPath(opt, p)  == [opt |-> opt, path |-> p, ids |-> <<>>]
OptIds(opt, ids) == [opt |-> opt, path |-> NoPath, ids |-> ids]
FileArg(p)       == [opt |-> "", path |-> p, ids |-> <<>>]

\* the command line built by lines 105-123
BuildCommand(encoded_video, original_file, final_output, info) ==
    <<OptPath("-o", final_output), Flag("--no-video"), FileArg(encoded_video)>>
    \o (IF info.audio # <<>> THEN <<OptIds("--audio-tracks", info.audio)>> ELSE <<>>)
    \o (IF info.subtitles # <<>> THEN <<OptIds("--subtitle-tracks", info.subtitles)>>
        ELSE <<Flag("--no-subtitles")>>)
    \o <<FileArg(original_file)>>

\* the binding of merge_tracks' parameters made by the call of line 173
MergeArgsByName(input_path, temp_output_path, final_output_path) ==
    [encoded_video |-> temp_output_path,
     original_file |-> input_path,
     final_output  |-> final_output_path]

MergeArgs(input_path, temp_output_path, final_output_path) ==
    [encoded_video |-> input_path,
     original_file |-> temp_output_path,
     final_output  |-> final_output_path]

\* mkvmerge: the per-file options seen since the previous source file
NoPending == [noVideo |-> FALSE, noSubs |-> FALSE,
              audioAll |-> TRUE, audio |-> <<>>, subsAll |-> TRUE, subs |-> <<>>]

InIds(id, ids) == \E k \in 1..Len(ids) : ids[k] = id

\* mkvmerge: does a source file's track pass the options given for that file
Selected(t, pend) ==
    CASE t.type = "video"     -> ~pend.noVideo
      [] t.type = "audio"     -> pend.audioAll \/ InIds(t.id, pend.audio)
      [] t.type = "subtitles" -> ~pend.noSubs /\ (pend.subsAll \/ InIds(t.id, pend.subs))
      [] OTHER                -> TRUE

\* mkvmerge: the tracks a command line selects, in command-line order; an
\* option applies to the next source file only
RECURSIVE MuxTracks(_, _, _, _)
MuxTracks(cmd, i, pend, files) ==
    IF i > Len(cmd) THEN <<>>
    ELSE LET a == cmd[i] IN
         CASE a.opt = "-o" -> MuxTracks(cmd, i + 1, pend, files)
           [] a.opt = "--no-video" ->
                MuxTracks(cmd, i + 1, [pend EXCEPT !.noVideo = TRUE], files)
           [] a.opt = "--no-subtitles" ->
                MuxTracks(cmd, i + 1, [pend EXCEPT !.noSubs = TRUE], files)
           [] a.opt = "--audio-tracks" ->
                MuxTracks(cmd, i + 1, [pend EXCEPT !.audioAll = FALSE, !.audio = a.ids], files)
           [] a.opt = "--subtitle-tracks" ->
                MuxTracks(cmd, i + 1, [pend EXCEPT !.subsAll = FALSE, !.subs = a.ids], files)
           [] OTHER ->
                LET Keep(t) == Selected(t, pend)
                IN  SelectSeq(ReadFile(a.path, files).tracks, Keep)
                    \o MuxTracks(cmd, i + 1, NoPending, files)

\* mkvmerge numbers the tracks of its output from 0
Renumber(tracks) == [k \in 1..Len(tracks) |-> [tracks[k] EXCEPT !.id = k - 1]]

Mkvmerge(cmd, files) == Media(Renumber(MuxTracks(cmd, 1, NoPending, files)))

\* result.returncode == 1 (line 135)
IsWarningNever(rc) == FALSE
IsWarning(rc) == rc = 1
\* the elif of line 140
IsFatal(rc) == ~IsWarning(rc) /\ rc # 0

\* the file named in a log entry (lines 137, 142)
LogEntry(kind, original_file) ==
    [time |-> "isoformat", kind |-> kind, file |-> original_file]

\* ------------------------------------------------------------ encode_videos
\* os.path.exists(final_output_path) (line 165)
ShouldSkipTempToo(final_name, temp_name, files) ==
    final_name \in DOMAIN files \/ temp_name \in DOMAIN files

ShouldSkip(final_name, temp_name, files) == final_name \in DOMAIN files

NoJob == [status |-> "Pending", tools |-> {}]

Cur == listing[idx]
CurArgs == MergeArgs(PathJoin("in", Cur), PathJoin("out", TempName(Cur)),
                     PathJoin("out", FinalName(Cur)))

Invoke(tool) == [jobs EXCEPT ![idx].tools = @ \cup {tool}]
Fail(js)     == [js EXCEPT ![idx].status = "Failed"]

Orderings(S) ==
    {s \in [1..Cardinality(S) -> S] : \A i, j \in 1..Cardinality(S) : i # j => s[i] # s[j]}

InitVideo ==
    /\ resolution \in Resolutions
    /\ inDir \in {S \in SUBSET FileNames : S # {} /\ Cardinality(S) <= MaxFiles}
    /\ nAudio \in 0..MaxTracks
    /\ nSubs \in 0..MaxTracks
    /\ \E L \in SUBSET LeftoverNames : fs = [n \in L |-> Stale]
    /\ log = <<>>
    /\ pc = "start"
    /\ target_height = None
    /\ listing = <<>>
    /\ idx = 0
    /\ jobs = <<>>
    /\ tracks_info = NoTracksInfo
    /\ command = <<>>
    /\ returncode = 0
    /\ printed = "nothing"
    /\ run = 1
    /\ prevExit = "none"
    /\ fsStart = fs
    /\ logStart = 0

\* lines 146-155
Validate ==
    /\ pc = "start"
    /\ LET h == target_heights_get(Lower(resolution)) IN
         /\ target_height' = h
         /\ IF h = None
            THEN /\ printed' = "Invalid resolution"
                 /\ pc' = "exit1"
            ELSE /\ printed' = printed
                 /\ pc' = "scan"
    /\ UNCHANGED <<resolution, inDir, nAudio, nSubs, fs, log, listing, idx, jobs,
                   tracks_info, command, returncode, run, prevExit, fsStart, logStart>>

\* os.listdir(input_folder), line 157: the entries in arbitrary order
ListDir ==
    /\ pc = "scan"
    /\ \E order \in Orderings(inDir) :
         /\ listing' = order
         /\ jobs' = [i \in 1..Len(order) |-> NoJob]
    /\ idx' = 0
    /\ pc' = "loop"
    /\ UNCHANGED <<resolution, inDir, nAudio, nSubs, fs, log, target_height,
                   tracks_info, command, returncode, printed, run, prevExit,
                   fsStart, logStart>>

\* lines 157-169: the loop takes the next entry, filters it and checks the output
CheckFile ==
    /\ pc = "loop"
    /\ idx < Len(listing)
    /\ idx' = idx + 1
    /\ LET filename == listing[idx + 1] IN
         IF ~IsMediaFile(filename)
         THEN /\ jobs' = [jobs EXCEPT ![idx + 1].status = "Ignored"]
              /\ UNCHANGED <<pc, printed>>
         ELSE IF ShouldSkip(FinalName(filename), TempName(filename), fs)
         THEN /\ jobs' = [jobs EXCEPT ![idx + 1].status = "Skipped"]
              /\ printed' = "Skipping"
              /\ pc' = pc
         ELSE /\ jobs' = [jobs EXCEPT ![idx + 1].status = "Running"]
              /\ printed' = "Encoding"
              /\ pc' = "encode"
    /\ UNCHANGED <<resolution, inDir, nAudio, nSubs, fs, log, target_height, listing,
                   tracks_info, command, returncode, run, prevExit, fsStart, logStart>>

\* the for loop is exhausted; encode_videos returns
LoopEnd ==
    /\ pc = "loop"
    /\ idx = Len(listing)
    /\ pc' = "done"
    /\ UNCHANGED <<resolution, inDir, nAudio, nSubs, fs, log, target_height, listing,
                   idx, jobs, tracks_info, command, returncode, printed, run, prevExit,
                   fsStart, logStart>>

\* line 170, encode_video (84-99): HandBrakeCLI writes a video-only file to -o;
\* check=True turns a non-zero exit into an exception nobody catches
EncodeVideo ==
    /\ pc = "encode"
    /\ \/ /\ fs' = WriteFile(fs, TempName(Cur),
                      Media(<<Track("video", 0, "encoded", Cur, target_height)>>))
          /\ jobs' = Invoke("encoder")
          /\ printed' = "Merging"
          /\ pc' = "inspect"
       \/ /\ \/ fs' = fs
             \/ fs' = WriteFile(fs, TempName(Cur), Partial)
          /\ jobs' = Fail(Invoke("encoder"))
          /\ printed' = "Traceback"
          /\ pc' = "crashed"
    /\ UNCHANGED <<resolution, inDir, nAudio, nSubs, log, target_height, listing, idx,
                   tracks_info, command, returncode, run, prevExit, fsStart, logStart>>

\* line 102, get_tracks_info (68-82): mkvmerge -J on merge_tracks' original_file
GetTracksInfo ==
    /\ pc = "inspect"
    /\ \/ /\ tracks_info' = get_tracks_info(ReadFile(CurArgs.original_file, fs))
          /\ jobs' = Invoke("inspector")
          /\ pc' = "merge"
          /\ printed' = printed
       \/ /\ tracks_info' = tracks_info
          /\ jobs' = Fail(Invoke("inspector"))
          /\ printed' = "Traceback"
          /\ pc' = "crashed"
    /\ UNCHANGED <<resolution, inDir, nAudio, nSubs, fs, log, target_height, listing,
                   idx, command, returncode, run, prevExit, fsStart, logStart>>

\* lines 105-143 and, when merge_tracks returns, 175-176
MergeTracks ==
    /\ pc = "merge"
    /\ LET a   == CurArgs
           cmd == BuildCommand(a.encoded_video, a.original_file, a.final_output,
                               tracks_info)
           out == WriteFile(fs, a.final_output.name, Mkvmerge(cmd, fs))
       IN
         /\ command' = cmd
         /\ \E rc \in {0, 1, 2} :
              /\ returncode' = rc
              /\ IF IsWarning(rc)
                 THEN /\ log' = Append(log, LogEntry("Warning", a.original_file))
                      /\ fs' = RemoveFile(out, TempName(Cur))
                      /\ jobs' = [Invoke("remuxer") EXCEPT ![idx].status = "Completed"]
                      /\ printed' = "Finished"
                      /\ pc' = "loop"
                 ELSE IF IsFatal(rc)
                 THEN /\ log' = Append(log, LogEntry("Error", a.original_file))
                      /\ \/ fs' = fs
                         \/ fs' = WriteFile(fs, a.final_output.name, Partial)
                      /\ jobs' = Fail(Invoke("remuxer"))
                      /\ printed' = "Traceback"
                      /\ pc' = "crashed"
                 ELSE /\ log' = log
                      /\ fs' = RemoveFile(out, TempName(Cur))
                      /\ jobs' = [Invoke("remuxer") EXCEPT ![idx].status = "Completed"]
                      /\ printed' = "Finished"
                      /\ pc' = "loop"
    /\ UNCHANGED <<resolution, inDir, nAudio, nSubs, target_height, listing, idx,
                   tracks_info, run, prevExit, fsStart, logStart>>

\* the program is invoked again with the same arguments (lines 178-187)
Rerun ==
    /\ pc \in {"done", "crashed", "exit1"}
    /\ run < MaxRuns
    /\ run' = run + 1
    /\ prevExit' = pc
    /\ pc' = "start"
    /\ target_height' = None
    /\ listing' = <<>>
    /\ idx' = 0
    /\ jobs' = <<>>
    /\ tracks_info' = NoTracksInfo
    /\ command' = <<>>
    /\ returncode' = 0
    /\ printed' = "nothing"
    /\ fsStart' = fs
    /\ logStart' = Len(log)
    /\ UNCHANGED <<resolution, inDir, nAudio, nSubs, fs, log>>

IdleIA ==
    /\ file_links = <<>>
    /\ submitted = 0
    /\ task = <<>>
    /\ disk = <<>>
    /\ mainpc = "idle"

Init == InitVideo /\ IdleIA

Next ==
    \/ Validate /\ UNCHANGED iaVars
    \/ ListDir /\ UNCHANGED iaVars
    \/ CheckFile /\ UNCHANGED iaVars
    \/ LoopEnd /\ UNCHANGED iaVars
    \/ EncodeVideo /\ UNCHANGED iaVars
    \/ GetTracksInfo /\ UNCHANGED iaVars
    \/ MergeTracks /\ UNCHANGED iaVars
    \/ Rerun /\ UNCHANGED iaVars

Spec == Init /\ [][Next]_vars

\* ============================================================ ia-download.py
\* ThreadPoolExecutor(max_workers=10)
max_workers == 10

\* the folder URL of sys.argv[1]
url == <<"u", "/">>

\* hrefs that may occur on the page; the last token stands for the extension
Hrefs ==
    { <<"a", ".zip">>,
      <<"d", "/", "a", ".zip">>,
      <<"a", ":", ".zip">>,
      <<"a", "-", ".zip">>,
      <<"a", "%", "3", "A", ".zip">>,
      <<"a", ".txt">> }

file_type == ".zip"

\* the href filter of line 52 ('View Contents' occurs in none of the hrefs above)
MatchesFileType(href) == Len(href) >= 1 /\ href[Len(href)] = file_type

\* the character a percent escape stands for
PercentDecode(h1, h2) ==
    CASE h1 = "3" /\ h2 = "A" -> ":"
      [] h1 = "2" /\ h2 = "F" -> "/"
      [] OTHER -> "?"

\* urllib.parse.unquote
RECURSIVE unquote(_)
unquote(s) ==
    IF s = <<>> THEN <<>>
    ELSE IF s[1] = "%" /\ Len(s) >= 3
         THEN <<PercentDecode(s[2], s[3])>> \o unquote(SubSeq(s, 4, Len(s)))
         ELSE <<s[1]>> \o unquote(Tail(s))

\* decoded_url.split('/')[-1]
LastSegment(s) ==
    LET slashes == {i \in 1..Len(s) : s[i] = "/"}
        last    == IF slashes = {} THEN 0
                   ELSE CHOOSE i \in slashes : \A j \in slashes : j <= i
    IN  SubSeq(s, last + 1, Len(s))

invalid_chars == {"<", ">", ":", "\"", "/", "\\", "|", "?", "*"}

\* sanitize_filename (lines 60-64)
sanitize_filename(filename) ==
    [k \in 1..Len(filename) |->
        IF filename[k] \in invalid_chars THEN "-" ELSE filename[k]]

\* the filename download_file derives from a file_url (lines 68-70)
DownloadName(file_url) == sanitize_filename(LastSegment(unquote(file_url)))

Running == {t \in DOMAIN task : task[t].state = "open"}

\* h265.py is not running
IdleVideo ==
    /\ resolution = "720p"
    /\ inDir = {}
    /\ nAudio = 0
    /\ nSubs = 0
    /\ fs = <<>>
    /\ log = <<>>
    /\ pc = "idle"
    /\ target_height = None
    /\ listing = <<>>
    /\ idx = 0
    /\ jobs = <<>>
    /\ tracks_info = NoTracksInfo
    /\ command = <<>>
    /\ returncode = 0
    /\ printed = "nothing"
    /\ run = 1
    /\ prevExit = "none"
    /\ fsStart = <<>>
    /\ logStart = 0

InitIA ==
    /\ IdleVideo
    /\ \E n \in 1..MaxLinks : \E page \in [1..n -> Hrefs] :
         file_links = SelectSeq(page, MatchesFileType)
    /\ submitted = 0
    /\ task = <<>>
    /\ disk = <<>>
    /\ mainpc = "submitting"

\* lines 97-99: the main thread submits the next link
Submit ==
    /\ mainpc = "submitting"
    /\ submitted < Len(file_links)
    /\ submitted' = submitted + 1
    /\ task' = Append(task, [state |-> "queued",
                             file_url |-> url \o file_links[submitted + 1],
                             filename |-> <<>>,
                             written |-> 0])
    /\ UNCHANGED <<file_links, disk, mainpc>>

\* the for loop ends; leaving the with block waits for the pool
SubmitEnd ==
    /\ mainpc = "submitting"
    /\ submitted = Len(file_links)
    /\ mainpc' = "waiting"
    /\ UNCHANGED <<file_links, submitted, task, disk>>

\* a free worker takes the oldest queued task and runs download_file up to
\* open(filepath, 'wb') (lines 68-73), which creates or truncates the file
OpenFile(t) ==
    /\ task[t].state = "queued"
    /\ Cardinality(Running) < max_workers
    /\ \A u \in 1..(t - 1) : task[u].state # "queued"
    /\ LET filename == DownloadName(task[t].file_url) IN
         /\ task' = [task EXCEPT ![t].state = "open", ![t].filename = filename]
         /\ disk' = (filename :> <<>>) @@ disk
    /\ UNCHANGED <<file_links, submitted, mainpc>>

\* file_handle.write(data) (line 85)
WriteBlock(t) ==
    /\ task[t].state = "open"
    /\ task[t].written < MaxBlocks
    /\ task' = [task EXCEPT ![t].written = @ + 1]
    /\ disk' = [disk EXCEPT ![task[t].filename] = Append(@, t)]
    /\ UNCHANGED <<file_links, submitted, mainpc>>

\* the response is exhausted; the with block of line 73 closes the file
CloseFile(t) ==
    /\ task[t].state = "open"
    /\ task[t].written = MaxBlocks
    /\ task' = [task EXCEPT ![t].state = "done"]
    /\ UNCHANGED <<file_links, submitted, disk, mainpc>>

\* every task has finished; line 101
AllDownloaded ==
    /\ mainpc = "waiting"
    /\ \A t \in DOMAIN task : task[t].state = "done"
    /\ mainpc' = "finished"
    /\ UNCHANGED <<file_links, submitted, task, disk>>

NextIA ==
    \/ Submit /\ UNCHANGED videoVars
    \/ SubmitEnd /\ UNCHANGED videoVars
    \/ (\E t \in DOMAIN task : OpenFile(t)) /\ UNCHANGED videoVars
    \/ (\E t \in DOMAIN task : WriteBlock(t)) /\ UNCHANGED videoVars
    \/ (\E t \in DOMAIN task : CloseFile(t)) /\ UNCHANGED videoVars
    \/ AllDownloaded /\ UNCHANGED videoVars

SpecIA == InitIA /\ [][NextIA]_vars

\* ================================================================ properties
AcceptedTokens == {"480p", "720p", "1080p", "2160p"}
Terminal(j)    == j.status \in {"Ignored", "Skipped", "Completed", "Failed"}
TypeCount(tracks, type) == Cardinality({k \in 1..Len(tracks) : tracks[k].type = type})
\* the audio and subtitle tracks of a container, in order, track ids left out
NonVideo(tracks) ==
    LET Is(t) == t.type # "video"
        sel   == SelectSeq(tracks, Is)
    IN  [k \in 1..Len(sel) |-> [type |-> sel[k].type, of |-> sel[k].of,
                                 origin |-> sel[k].origin]]

\* C1: the Check step of a recognized file ends in Skipped exactly when the
\* final output <stem>.mkv exists at that moment.  When it exists the step
\* touches no file and no log and the job never gets an external tool; when it
\* does not exist the job goes to Encode, whether or not temp_<stem>.mkv exists.
C1_SkipIffFinalExists ==
    /\ [](\A i \in DOMAIN jobs : jobs[i].status = "Skipped" => jobs[i].tools = {})
    /\ [][(pc = "loop" /\ idx' = idx + 1 /\ IsMediaFile(listing[idx + 1])) =>
            LET f == listing[idx + 1] IN
              /\ (jobs'[idx + 1].status = "Skipped") <=> (FinalName(f) \in DOMAIN fs)
              /\ (FinalName(f) \in DOMAIN fs) =>
                    (fs' = fs /\ log' = log /\ pc' = "loop" /\ jobs'[idx + 1].tools = {})
              /\ (FinalName(f) \notin DOMAIN fs) =>
                    (pc' = "encode" /\ jobs'[idx + 1].status = "Running" /\ fs' = fs)]_vars

\* C1 witness: in one run a job was skipped, and a job whose temp file was
\* left over from before the run has been encoded and remuxed.
C1_Witness ==
    /\ \E i \in DOMAIN jobs : jobs[i].status = "Skipped"
    /\ \E i \in DOMAIN jobs :
         /\ jobs[i].status = "Completed"
         /\ jobs[i].tools = {"encoder", "inspector", "remuxer"}
         /\ TempName(listing[i]) \in DOMAIN fsStart

\* C2: a second run that follows a first run which ran to its normal end
\* invokes no encoder and no remuxer: all of its jobs are skipped.
C2_SecondRunDoesNoWork ==
    (run >= 2 /\ prevExit = "done") =>
        \A i \in DOMAIN jobs :
            /\ jobs[i].tools = {}
            /\ jobs[i].status \in {"Pending", "Ignored", "Skipped"}

\* C3: a failed job does not stop the batch: when the program has ended, no
\* recognized file of the listing is left unchecked.
C3_FailureKeepsBatchGoing ==
    (pc \in {"done", "crashed"}) =>
        \A i \in DOMAIN jobs : IsMediaFile(listing[i]) => Terminal(jobs[i])

\* C4: a remux that exits with code 1 appends exactly one timestamped entry
\* to the log, raises nothing, leaves the job Completed with its temp file
\* deleted and "Finished" printed, and the loop goes on to the next entry.
C4_WarningLoggedNotFatal ==
    [][(pc = "merge" /\ returncode' = 1) =>
          /\ Len(log') = Len(log) + 1
          /\ SubSeq(log', 1, Len(log)) = log
          /\ log'[Len(log')].time = "isoformat"
          /\ log'[Len(log')].kind = "Warning"
          /\ jobs'[idx].status = "Completed"
          /\ TempName(Cur) \notin DOMAIN fs'
          /\ FinalName(Cur) \in DOMAIN fs'
          /\ printed' = "Finished"
          /\ pc' = "loop" /\ idx' = idx /\ listing' = listing]_vars

\* C4 witness: a job finished with a warning and the loop has taken the next
\* entry of the listing.
C4_Witness ==
    /\ returncode = 1
    /\ idx >= 2
    /\ jobs[idx - 1].status = "Completed"
    /\ Len(log) > logStart
    /\ Terminal(jobs[idx]) \/ jobs[idx].status = "Running"

\* C5: when a job completes, the file the remux command produced has exactly
\* one video track, the one encoded from this input, and after it exactly the
\* nAudio audio and nSubs subtitle tracks of the original input.
C5_OneNewVideoAllOriginalOthers ==
    [][(pc = "merge" /\ jobs'[idx].status = "Completed") =>
          LET out  == fs'[FinalName(Cur)].tracks
              orig == InputTracks(Cur, nAudio, nSubs)
          IN  /\ TypeCount(out, "video") = 1
              /\ \A k \in 1..Len(out) : out[k].type = "video" =>
                    (out[k].origin = "encoded" /\ out[k].of = Cur)
              /\ TypeCount(out, "audio") = nAudio
              /\ TypeCount(out, "subtitles") = nSubs
              /\ Len(out) = 1 + nAudio + nSubs
              /\ NonVideo(out) = NonVideo(orig)]_vars

\* C5 witness: a job of an input with audio but without subtitles completed.
C5_Witness ==
    /\ pc = "loop" /\ idx >= 1
    /\ jobs[idx].status = "Completed"
    /\ nAudio > 0 /\ nSubs = 0
    /\ FinalName(Cur) \in DOMAIN fs

\* C6: with a resolution token outside 480p/720p/1080p/2160p (case ignored)
\* the run never gets past validation: no listing, no job, no tool, no change
\* to the output folder or the log, and it ends with the error message.
C6_BadResolutionFailsFast ==
    (pc # "idle" /\ Lower(resolution) \notin AcceptedTokens) =>
        /\ pc \in {"start", "exit1"}
        /\ listing = <<>> /\ jobs = <<>> /\ command = <<>>
        /\ fs = fsStart /\ Len(log) = logStart
        /\ (pc = "exit1" => printed = "Invalid resolution")

\* C6 witness: the run has exited on an unrecognized token.
C6_Witness == pc = "exit1" /\ Lower(resolution) \notin AcceptedTokens

\* C7: a first run in which no tool failed and whose output folder held no
\* final output at the start leaves every recognized file Completed.
C7_EveryMediaFileCompleted ==
    (/\ run = 1 /\ pc = "done"
     /\ \A f \in inDir : IsMediaFile(f) => FinalName(f) \notin DOMAIN fsStart) =>
        \A i \in DOMAIN jobs : IsMediaFile(listing[i]) => jobs[i].status = "Completed"

\* C8: every log entry carries a timestamp and names the path of an input
\* file in the input folder.
C8_LogNamesInputFile ==
    \A k \in 1..Len(log) :
        /\ log[k].time = "isoformat"
        /\ log[k].file.dir = "in"
        /\ log[k].file.name \in inDir

\* C9: a Completed job has its final output present and its temp file absent.
C9_CompletedHasFinalNoTemp ==
    \A i \in DOMAIN jobs : jobs[i].status = "Completed" =>
        /\ FinalName(listing[i]) \in DOMAIN fs
        /\ TempName(listing[i]) \notin DOMAIN fs

\* C10: no two download_file tasks have the same file open at the same time.
C10_OneWriterPerFile ==
    \A t, u \in DOMAIN task :
        (t # u /\ task[t].state = "open" /\ task[u].state = "open") =>
            task[t].filename # task[u].filename

====
